---------------------------- MODULE Spec2Model ----------------------------
(***************************************************************************)
(* A model of nematus/config.py: the parameter table                       *)
(* (ConfigSpecification), its self check, the command-line reader          *)
(* (read_config_from_cmdline), the file loader                             *)
(* (load_config_from_json_file), the consistency checker and the           *)
(* derivation functions.                                                   *)
(*                                                                         *)
(* Encoding of Python values.  An attribute value is an optional: None is  *)
(* the empty sequence <<>> and a value v is the one-element sequence       *)
(* <<v>>.  Strings are strings, ints are integers, lists are sequences,    *)
(* booleans are booleans, and floats are written as the string of their    *)
(* literal ("0.2").  A configuration (argparse.Namespace) is a function    *)
(* from the names of the attributes it has to their values; hasattr is     *)
(* membership in its DOMAIN.                                               *)
(***************************************************************************)
EXTENDS Integers, Sequences, FiniteSets, TLC

\* ------------------------------------------------------------------------
\* Bounds of the model
\* ------------------------------------------------------------------------

\* Largest number of input factors a command line or a file asks for.
MaxFactors == 2

\* ------------------------------------------------------------------------
\* Python values
\* ------------------------------------------------------------------------

None == <<>>

Some(v) == <<v>>

IsNone(o) == o = None

Val(o) == o[1]

\* Python truthiness of an optional string (None and '' are false).
TruthyStr(o) == o # None /\ Val(o) # ""

\* Python truthiness of an optional list (None and [] are false).
TruthyList(o) == o # None /\ Len(Val(o)) > 0

HasAttr(config, name) == name \in DOMAIN config

SetAttr(config, name, v) ==
    [x \in (DOMAIN config) \cup {name} |-> IF x = name THEN v ELSE config[x]]

DelAttr(config, name) == [x \in (DOMAIN config) \ {name} |-> config[x]]

\* argparse.Namespace(): no attribute at all.
EmptyNamespace == [x \in {} |-> None]

RECURSIVE SumSeq(_)
SumSeq(s) == IF s = <<>> THEN 0 ELSE Head(s) + SumSeq(Tail(s))

MaxOf(S) == CHOOSE x \in S : \A y \in S : y <= x

\* s[:-1]
AllButLast(s) == SubSeq(s, 1, Len(s) - 1)

\* s * n for a one-element list s = [v]
Repeat(v, n) == [i \in 1..n |-> v]

SeqToSet(s) == {s[i] : i \in 1..Len(s)}

\* ------------------------------------------------------------------------
\* ParameterSpecification and the parameter table
\* ------------------------------------------------------------------------

\* ParameterSpecification.__init__ : the fields the loaders read.  `action'
\* stands for argparse_args['action'] ("store" when absent), `required' for
\* argparse_args['required'], derivation_func "" for None.
Param(name, default, legacy, visible, hidden, deriv, action, required) ==
    [name |-> name, default |-> default, legacy_names |-> legacy,
     visible_arg_names |-> visible, hidden_arg_names |-> hidden,
     derivation_func |-> deriv, action |-> action, required |-> required]

Plain(name, default, visible) ==
    Param(name, default, <<>>, visible, <<>>, "", "store", FALSE)

\* ConfigSpecification.__init__ : the groups in the order of the
\* OrderedDict.
GroupNames == <<"", "data", "network", "training", "validation", "display",
                "translate">>

Embedding_default == 512

State_default == 1000

\* ConfigSpecification._define_param_specs : the table, group by group, in
\* declaration order.  Every parameter that has a legacy name, a derivation
\* function, a hidden alias, more than one alias, a `required' flag, or that
\* a check or a derivation reads is here.  The remaining parameters are
\* plain (one visible alias, a default, nothing else) and are represented by
\* saveFreq, reload, reload_training_progress, beam_size and normalize.
ParamSpecs ==
    [g \in SeqToSet(GroupNames) |->
       CASE g = "" ->
            << Param("model_version", None, <<>>, <<>>, <<>>,
                     "_derive_model_version", "store", FALSE),
               Param("theano_compat", None, <<>>, <<>>, <<>>,
                     "theano_compat", "store", FALSE),
               Param("source_dicts", None, <<>>, <<>>, <<>>,
                     "source_dicts", "store", FALSE),
               Param("target_dict", None, <<>>, <<>>, <<>>,
                     "target_dict", "store", FALSE),
               Param("target_embedding_size", None, <<>>, <<>>, <<>>,
                     "_derive_target_embedding_size", "store", FALSE) >>
         [] g = "data" ->
            << Param("source_dataset", None, <<>>, <<"--source_dataset">>,
                     <<>>, "_derive_source_dataset", "store", FALSE),
               Param("target_dataset", None, <<>>, <<"--target_dataset">>,
                     <<>>, "_derive_target_dataset", "store", FALSE),
               Param("datasets", None, <<>>, <<>>, <<"--datasets">>,
                     "", "store", FALSE),
               Param("dictionaries", None, <<>>, <<"--dictionaries">>,
                     <<>>, "", "store", TRUE),
               Plain("saveFreq", Some(30000), <<"--saveFreq">>),
               Plain("saveto", Some("model"), <<"--model", "--saveto">>),
               Plain("reload", None, <<"--reload">>),
               Param("reload_training_progress", Some(TRUE), <<>>,
                     <<"--no_reload_training_progress">>, <<>>, "",
                     "store_false", FALSE) >>
         [] g = "network" ->
            << Param("embedding_size", Some(Embedding_default),
                     <<"dim_word">>, <<"--embedding_size", "--dim_word">>,
                     <<>>, "", "store", FALSE),
               Param("state_size", Some(State_default), <<"dim">>,
                     <<"--state_size", "--dim">>, <<>>, "", "store", FALSE),
               Param("source_vocab_sizes", None, <<>>,
                     <<"--source_vocab_sizes", "--n_words_src">>, <<>>,
                     "_derive_source_vocab_sizes", "store", FALSE),
               Param("target_vocab_size", Some(-1), <<"n_words">>,
                     <<"--target_vocab_size", "--n_words">>, <<>>,
                     "_derive_target_vocab_size", "store", FALSE),
               Plain("factors", Some(1), <<"--factors">>),
               Param("dim_per_factor", None, <<>>, <<"--dim_per_factor">>,
                     <<>>, "_derive_dim_per_factor", "store", FALSE),
               Param("use_dropout", Some(FALSE), <<>>, <<"--use_dropout">>,
                     <<>>, "", "store_true", FALSE),
               Param("dropout_embedding", None, <<>>,
                     <<"--dropout_embedding">>, <<>>,
                     "_derive_dropout_embedding", "store", FALSE),
               Param("dropout_hidden", None, <<>>, <<"--dropout_hidden">>,
                     <<>>, "_derive_dropout_hidden", "store", FALSE),
               Param("use_layer_norm", Some(FALSE),
                     <<"layer_normalisation">>,
                     <<"--use_layer_norm", "--layer_normalisation">>, <<>>,
                     "", "store_true", FALSE),
               Param("tie_encoder_decoder_embeddings", Some(FALSE), <<>>,
                     <<"--tie_encoder_decoder_embeddings">>, <<>>, "",
                     "store_true", FALSE) >>
         [] g = "training" ->
            << Param("learning_rate", Some("0.0001"), <<"lrate">>,
                     <<"--learning_rate", "--lrate">>, <<>>, "", "store",
                     FALSE) >>
         [] g = "validation" ->
            << Param("valid_source_dataset", None, <<>>,
                     <<"--valid_source_dataset">>, <<>>,
                     "_derive_valid_source_dataset", "store", FALSE),
               Param("valid_target_dataset", None, <<>>,
                     <<"--valid_target_dataset">>, <<>>,
                     "_derive_valid_target_dataset", "store", FALSE),
               Param("valid_datasets", None, <<>>, <<>>,
                     <<"--valid_datasets">>, "", "store", FALSE) >>
         [] g = "display" ->
            << Plain("beam_size", Some(12), <<"--beam_size">>) >>
         [] OTHER ->
            << Param("normalize", Some(TRUE), <<>>, <<"--no_normalize">>,
                     <<>>, "", "store_false", FALSE) >> ]

\* A slip: the groups are visited from the last to the first.
RECURSIVE FlattenFrom_Backwards(_, _)
FlattenFrom_Backwards(table, g) ==
    IF g > Len(GroupNames) THEN <<>>
    ELSE FlattenFrom_Backwards(table, g + 1) \o table[GroupNames[g]]

\* The nested loops `for group in spec.group_names: for param in
\* spec.params_by_group(group)' : the parameters of a table in iteration
\* order.
RECURSIVE FlattenFrom(_, _)
FlattenFrom(table, g) ==
    IF g > Len(GroupNames) THEN <<>>
    ELSE table[GroupNames[g]] \o FlattenFrom(table, g + 1)

AllParams(table) == FlattenFrom(table, 1)

ParamNames == {AllParams(ParamSpecs)[i].name :
                  i \in 1..Len(AllParams(ParamSpecs))}


\* ------------------------------------------------------------------------
\* State
\* ------------------------------------------------------------------------

VARIABLES
    fn,              \* the function that is running
    pc,              \* its position
    table,           \* ConfigSpecification._param_specs (group -> list)
    argv,            \* the command line: parameter name -> its option tokens
    files,           \* the files: json, pkl and the unreadable dictionaries
    config,          \* the argparse.Namespace being built
    meta_config,     \* from_cmdline / from_theano
    error_messages,  \* the list _check_config_consistency returned
    log,             \* what logging.error was called with
    exit_status,     \* the status passed to sys.exit, or None
    opened,          \* the files opened so far, in order
    derived,         \* the parameters whose derivation function has run
    returned         \* the configuration read_config_from_cmdline returned

vars == <<fn, pc, table, argv, files, config, meta_config, error_messages,
          log, exit_status, opened, derived, returned>>

\* ------------------------------------------------------------------------
\* ConfigSpecification._check_self
\* ------------------------------------------------------------------------

\* A slip: the legacy names are checked but not remembered.
RECURSIVE CheckLegacyNames_NotAdded(_, _, _)
CheckLegacyNames_NotAdded(legacy, k, param_names) ==
    IF k > Len(legacy) THEN [ok |-> TRUE, names |-> param_names]
    ELSE IF legacy[k] \in param_names
         THEN [ok |-> FALSE, names |-> param_names]
         ELSE CheckLegacyNames_NotAdded(legacy, k + 1, param_names)

\* `for name in param.legacy_names: assert name not in param_names;
\* param_names.add(name)' : the set after the loop, or failure.
RECURSIVE CheckLegacyNames(_, _, _)
CheckLegacyNames(legacy, k, param_names) ==
    IF k > Len(legacy) THEN [ok |-> TRUE, names |-> param_names]
    ELSE IF legacy[k] \in param_names
         THEN [ok |-> FALSE, names |-> param_names]
         ELSE CheckLegacyNames(legacy, k + 1, param_names \cup {legacy[k]})

\* The first loop of _check_self over the parameters in iteration order.
RECURSIVE CheckParamNames(_, _, _)
CheckParamNames(params, i, param_names) ==
    IF i > Len(params) THEN TRUE
    ELSE IF params[i].name \in param_names THEN FALSE
         ELSE LET r == CheckLegacyNames(params[i].legacy_names, 1,
                                        param_names \cup {params[i].name})
              IN  r.ok /\ CheckParamNames(params, i + 1, r.names)

\* `for name in arg_list: assert name not in arg_names;
\* arg_names.add(param.name)' over visible_arg_names then hidden_arg_names
\* of one parameter.
RECURSIVE CheckArgList(_, _, _, _)
CheckArgList(pname, args, k, arg_names) ==
    IF k > Len(args) THEN [ok |-> TRUE, names |-> arg_names]
    ELSE IF args[k] \in arg_names
         THEN [ok |-> FALSE, names |-> arg_names]
         ELSE CheckArgList(pname, args, k + 1, arg_names \cup {pname})

\* The second loop of _check_self.
RECURSIVE CheckArgNames(_, _, _)
CheckArgNames(params, i, arg_names) ==
    IF i > Len(params) THEN TRUE
    ELSE LET p == params[i]
             r == CheckArgList(p.name,
                               p.visible_arg_names \o p.hidden_arg_names,
                               1, arg_names)
         IN  r.ok /\ CheckArgNames(params, i + 1, r.names)

\* _check_self : TRUE when no assertion fails.
CheckSelf(t) ==
    /\ CheckParamNames(AllParams(t), 1, {})
    /\ CheckArgNames(AllParams(t), 1, {})

\* ConfigSpecification() : builds the table and checks it; an
\* AssertionError leaves no specification.
Construct ==
    /\ fn = "ConfigSpecification" /\ pc = "start"
    /\ pc' = IF CheckSelf(table) THEN "constructed" ELSE "raised"
    /\ UNCHANGED <<fn, table, argv, files, config, meta_config,
                   error_messages, log, exit_status, opened, derived,
                   returned>>

\* Candidate tables: at most MaxParams parameters, each declared in the
\* group '' or 'data', with names, legacy names and aliases from small
\* alphabets, and the table of the program itself.
MaxParams == 2

CandidateArgs == { <<<<>>, <<>>>>, <<<<"--a">>, <<>>>>, <<<<>>, <<"--a">>>>,
                   <<<<"--a", "--a">>, <<>>>> }

CandidateParams ==
    { [group |-> g,
       spec |-> Param(n, None, l, a[1], a[2], "", "store", FALSE)] :
         g \in {"", "data"}, n \in {"p", "q"},
         l \in {<<>>, <<"q">>, <<"r">>}, a \in CandidateArgs }

CandidateDecls ==
    UNION { [1..k -> CandidateParams] : k \in 0..MaxParams }

RECURSIVE InGroup(_, _, _)
InGroup(decls, g, i) ==
    IF i > Len(decls) THEN <<>>
    ELSE (IF decls[i].group = g THEN <<decls[i].spec>> ELSE <<>>)
         \o InGroup(decls, g, i + 1)

TableOf(decls) == [g \in SeqToSet(GroupNames) |-> InGroup(decls, g, 1)]

Idle ==
    /\ argv = <<>> /\ files = <<>> /\ config = EmptyNamespace
    /\ meta_config = <<>> /\ error_messages = <<>> /\ log = <<>>
    /\ exit_status = None /\ opened = <<>> /\ derived = <<>>
    /\ returned = None

InitSelf ==
    /\ fn = "ConfigSpecification" /\ pc = "start"
    /\ table \in {TableOf(d) : d \in CandidateDecls} \cup {ParamSpecs}
    /\ Idle

NextSelf == Construct

SpecSelf == InitSelf /\ [][NextSelf]_vars


\* ------------------------------------------------------------------------
\* The argument parser built by read_config_from_cmdline
\* ------------------------------------------------------------------------

\* One option on the command line: the alias used and the converted value
\* (the value is ignored by store_true / store_false).
Tok(opt, val) == [opt |-> opt, val |-> val]

IsInternal(p) == p.visible_arg_names = <<>> /\ p.hidden_arg_names = <<>>

\* The argparse action an option string belongs to: the parameter's visible
\* aliases are the option strings of one add_argument call, its hidden
\* aliases those of another.
ActionOf(p, opt) ==
    IF opt \in SeqToSet(p.visible_arg_names) THEN "visible" ELSE "hidden"

ActionsSeen(p, toks) == {ActionOf(p, toks[k].opt) : k \in 1..Len(toks)}

\* argparse rejects two different actions of one mutually exclusive group.
\* A parameter without visible aliases is added to no such group.
MutexConflict(p, toks) ==
    p.visible_arg_names # <<>> /\ Cardinality(ActionsSeen(p, toks)) > 1

\* A required group (or a required hidden argument) with no option given.
MissingRequired(p, toks) == p.required /\ toks = <<>>

\* The value argparse leaves in dest: the default, or what the last of the
\* parameter's options stored.
StoredValue(p, toks) ==
    IF toks = <<>> THEN p.default
    ELSE CASE p.action = "store_true" -> Some(TRUE)
           [] p.action = "store_false" -> Some(FALSE)
           [] OTHER -> Some(toks[Len(toks)].val)

CmdParams(t) == {AllParams(t)[i] : i \in 1..Len(AllParams(t))}

\* parser.parse_args fails (usage error, exit status 2).
ParseFails(t, args) ==
    \E p \in CmdParams(t) :
        /\ ~IsInternal(p)
        /\ MutexConflict(p, args[p.name]) \/ MissingRequired(p, args[p.name])

\* The namespace after `Set non-command-line parameters to default values'
\* and parse_args: the internal parameters of group '' hold their default,
\* every parameter with aliases holds its stored value.
ParsedConfig(t, args) ==
    LET internal == {p \in SeqToSet(t[""]) : IsInternal(p)}
        cmdline == {p \in CmdParams(t) : ~IsInternal(p)}
        byName(n) == CHOOSE p \in internal \cup cmdline : p.name = n
    IN  [n \in {p.name : p \in internal \cup cmdline} |->
           IF IsInternal(byName(n)) THEN byName(n).default
           ELSE StoredValue(byName(n), args[n])]

\* ------------------------------------------------------------------------
\* _check_config_consistency
\* ------------------------------------------------------------------------

\* A slip: the clash is reported only when both options are given.
DatasetsCheck_BothNeeded(c) ==
    IF TruthyList(c["datasets"])
    THEN IF TruthyStr(c["source_dataset"]) /\ TruthyStr(c["target_dataset"])
         THEN <<"argument clash: --datasets">>
         ELSE <<>>
    ELSE IF ~TruthyStr(c["source_dataset"])
         THEN <<"--source_dataset is required">>
         ELSE IF ~TruthyStr(c["target_dataset"])
              THEN <<"--target_dataset is required">>
              ELSE <<>>

DatasetsCheck(c) ==
    IF TruthyList(c["datasets"])
    THEN IF TruthyStr(c["source_dataset"]) \/ TruthyStr(c["target_dataset"])
         THEN <<"argument clash: --datasets">>
         ELSE <<>>
    ELSE IF ~TruthyStr(c["source_dataset"])
         THEN <<"--source_dataset is required">>
         ELSE IF ~TruthyStr(c["target_dataset"])
              THEN <<"--target_dataset is required">>
              ELSE <<>>

ValidDatasetsCheck(c) ==
    IF /\ TruthyList(c["valid_datasets"])
       /\ \/ TruthyStr(c["valid_source_dataset"])
          \/ TruthyStr(c["valid_target_dataset"])
    THEN <<"argument clash: --valid_datasets">>
    ELSE <<>>

VocabSizesCheck(c) ==
    IF /\ c["source_vocab_sizes"] # None
       /\ Len(Val(c["source_vocab_sizes"])) > Val(c["factors"])
    THEN <<"too many values supplied to --source_vocab_sizes">>
    ELSE <<>>

\* A slip: dim_per_factor is asked for only above two factors.
NeedDimPerFactorCheck_AboveTwo(c) ==
    IF c["dim_per_factor"] = None /\ Val(c["factors"]) > 2
    THEN <<"you must specify dim_per_factor">>
    ELSE <<>>

NeedDimPerFactorCheck(c) ==
    IF c["dim_per_factor"] = None /\ Val(c["factors"]) # 1
    THEN <<"you must specify dim_per_factor">>
    ELSE <<>>

\* A slip: the sum is not compared with the embedding size.
DimPerFactorCheck_CountOnly(c) ==
    IF c["dim_per_factor"] # None
       /\ Len(Val(c["dim_per_factor"])) # Val(c["factors"])
    THEN <<"mismatch between --factors and --dim_per_factor">>
    ELSE <<>>

DimPerFactorCheck(c) ==
    IF c["dim_per_factor"] # None
    THEN IF Len(Val(c["dim_per_factor"])) # Val(c["factors"])
         THEN <<"mismatch between --factors and --dim_per_factor">>
         ELSE IF SumSeq(Val(c["dim_per_factor"])) # Val(c["embedding_size"])
              THEN <<"mismatch between --embedding_size and --dim_per_factor">>
              ELSE <<>>
    ELSE <<>>

DictionariesCheck(c) ==
    IF Len(Val(c["dictionaries"])) # Val(c["factors"]) + 1
    THEN <<"--dictionaries must specify one dictionary per factor">>
    ELSE <<>>

\* The list of error messages, in the order the checks append them.
CheckConfigConsistency(c) ==
    DatasetsCheck(c) \o ValidDatasetsCheck(c) \o VocabSizesCheck(c)
    \o NeedDimPerFactorCheck(c) \o DimPerFactorCheck(c)
    \o DictionariesCheck(c)


\* ------------------------------------------------------------------------
\* Derivation functions
\* ------------------------------------------------------------------------

\* What evaluating a derivation function does: it returns a value ("ok"),
\* calls sys.exit(1) after logging ("exit"), or raises (a failed assert or
\* another uncaught exception: "raised"); and the dictionary files it
\* opened.
Ok(v) == [status |-> "ok", val |-> v, opened |-> <<>>, log |-> <<>>]

Raised == [status |-> "raised", val |-> None, opened |-> <<>>, log |-> <<>>]

Exit1(msg) ==
    [status |-> "exit", val |-> None, opened |-> <<>>, log |-> <<msg>>]

TruthyBool(o) == o # None /\ Val(o)

CURRENT_VERSION == "0.2"

LEGACY_VERSION == "0.1"

DROPOUT_CMDLINE == "0.2"

DROPOUT_FILE == "0.0"

\* _determine_vocab_size_from_file : util.load_dict fails on a file that
\* cannot be read or parsed; max() raises on an empty dictionary.
DetermineVocabSizeFromFile(fs, path) ==
    IF path \notin DOMAIN fs.dicts \/ fs.dicts[path] = None
    THEN [Exit1("failed to determine vocabulary size from file")
            EXCEPT !.opened = <<path>>]
    ELSE IF Val(fs.dicts[path]) = {}
         THEN [Raised EXCEPT !.opened = <<path>>]
         ELSE [Ok(Some(MaxOf(Val(fs.dicts[path])) + 1))
                 EXCEPT !.opened = <<path>>]

\* A slip: the Theano dropout test is left out.
DeriveModelVersion_NoRefusal(c, m) ==
    IF m.from_cmdline THEN Ok(Some(CURRENT_VERSION))
    ELSE IF c["model_version"] # None THEN Ok(c["model_version"])
    ELSE Ok(Some(LEGACY_VERSION))

DeriveModelVersion(c, m) ==
    IF m.from_cmdline THEN Ok(Some(CURRENT_VERSION))
    ELSE IF c["model_version"] # None THEN Ok(c["model_version"])
    ELSE IF m.from_theano /\ TruthyBool(c["use_dropout"])
         THEN Exit1("version 0 dropout is not supported")
         ELSE Ok(Some(LEGACY_VERSION))

DeriveTheanoCompat(c, m) == Ok(Some(m.from_theano))

DeriveSourceDicts(c, m) ==
    IF c["dictionaries"] = None THEN Raised
    ELSE Ok(Some(AllButLast(Val(c["dictionaries"]))))

DeriveTargetDict(c, m) ==
    IF c["dictionaries"] = None \/ Val(c["dictionaries"]) = <<>> THEN Raised
    ELSE Ok(Some(Val(c["dictionaries"])[Len(Val(c["dictionaries"]))]))

\* A slip: the tying is ignored.
DeriveTargetEmbeddingSize_Untied(c, m) ==
    IF ~HasAttr(c, "embedding_size") THEN Raised
    ELSE Ok(c["embedding_size"])

\* A slip: with tied embeddings the first dimension is taken whenever
\* dim_per_factor is there, whatever the number of factors.
DeriveTargetEmbeddingSize_FirstDim(c, m) ==
    IF ~HasAttr(c, "embedding_size") THEN Raised
    ELSE IF ~TruthyBool(c["tie_encoder_decoder_embeddings"])
         THEN Ok(c["embedding_size"])
    ELSE IF c["dim_per_factor"] # None /\ Val(c["dim_per_factor"]) # <<>>
         THEN Ok(Some(Val(c["dim_per_factor"])[1]))
         ELSE Ok(c["embedding_size"])

DeriveTargetEmbeddingSize(c, m) ==
    IF ~HasAttr(c, "embedding_size") THEN Raised
    ELSE IF ~TruthyBool(c["tie_encoder_decoder_embeddings"])
         THEN Ok(c["embedding_size"])
    ELSE IF Val(c["factors"]) > 1
         THEN IF ~HasAttr(c, "dim_per_factor") THEN Raised
              ELSE IF c["dim_per_factor"] = None THEN Raised
              ELSE IF Val(c["dim_per_factor"]) = <<>> THEN Raised
              ELSE Ok(Some(Val(c["dim_per_factor"])[1]))
         ELSE Ok(c["embedding_size"])

\* The four dataset derivations: the explicit parameter or, when it is None,
\* the entry `k' of the combined two-element parameter, asserted to be there.
DeriveFromPair(c, name, pair, k) ==
    IF c[name] # None THEN Ok(c[name])
    ELSE IF c[pair] = None THEN Raised
    ELSE Ok(Some(Val(c[pair])[k]))

DeriveSourceDataset(c, m) == DeriveFromPair(c, "source_dataset", "datasets", 1)

DeriveTargetDataset(c, m) == DeriveFromPair(c, "target_dataset", "datasets", 2)

DeriveValidSourceDataset(c, m) ==
    DeriveFromPair(c, "valid_source_dataset", "valid_datasets", 1)

DeriveValidTargetDataset(c, m) ==
    DeriveFromPair(c, "valid_target_dataset", "valid_datasets", 2)

\* A slip: every entry is read from its dictionary, also one that was
\* given.
RECURSIVE FillVocabSizes_All(_, _, _, _, _)
FillVocabSizes_All(fs, dictionaries, vocab_sizes, i, seen) ==
    IF i > Len(vocab_sizes)
    THEN [Ok(Some(vocab_sizes)) EXCEPT !.opened = seen]
    ELSE IF dictionaries = None \/ i > Len(Val(dictionaries))
         THEN [Raised EXCEPT !.opened = seen]
    ELSE LET r == DetermineVocabSizeFromFile(fs, Val(dictionaries)[i])
         IN  IF r.status = "ok"
             THEN FillVocabSizes_All(fs, dictionaries,
                                     [vocab_sizes EXCEPT ![i] = Val(r.val)],
                                     i + 1, seen \o r.opened)
             ELSE [r EXCEPT !.opened = seen \o r.opened]

\* `for i, vocab_size in enumerate(vocab_sizes): if vocab_size >= 0:
\* continue; vocab_sizes[i] = _determine_vocab_size_from_file(
\* config.dictionaries[i])' from entry i on.
RECURSIVE FillVocabSizes(_, _, _, _, _)
FillVocabSizes(fs, dictionaries, vocab_sizes, i, seen) ==
    IF i > Len(vocab_sizes)
    THEN [Ok(Some(vocab_sizes)) EXCEPT !.opened = seen]
    ELSE IF vocab_sizes[i] >= 0
         THEN FillVocabSizes(fs, dictionaries, vocab_sizes, i + 1, seen)
    ELSE IF dictionaries = None \/ i > Len(Val(dictionaries))
         THEN [Raised EXCEPT !.opened = seen]
    ELSE LET r == DetermineVocabSizeFromFile(fs, Val(dictionaries)[i])
         IN  IF r.status = "ok"
             THEN FillVocabSizes(fs, dictionaries,
                                 [vocab_sizes EXCEPT ![i] = Val(r.val)],
                                 i + 1, seen \o r.opened)
             ELSE [r EXCEPT !.opened = seen \o r.opened]

DeriveSourceVocabSizes(c, m, fs) ==
    IF c["source_vocab_sizes"] # None
    THEN IF Len(Val(c["source_vocab_sizes"])) = Val(c["factors"])
         THEN Ok(c["source_vocab_sizes"])
         ELSE IF ~m.from_cmdline THEN Raised
         ELSE IF ~(Len(Val(c["source_vocab_sizes"])) < Val(c["factors"]))
              THEN Raised
         ELSE FillVocabSizes(fs, c["dictionaries"],
                  Val(c["source_vocab_sizes"])
                  \o Repeat(-1, Val(c["factors"])
                                - Len(Val(c["source_vocab_sizes"]))),
                  1, <<>>)
    ELSE IF HasAttr(c, "n_words_src")
         THEN IF m.from_cmdline \/ ~m.from_theano \/ c["n_words_src"] = None
              THEN Raised
              ELSE Ok(Some(Repeat(Val(c["n_words_src"]), Val(c["factors"]))))
    ELSE IF HasAttr(c, "source_vocab_size")
         THEN IF m.from_cmdline \/ m.from_theano \/ Val(c["factors"]) # 1
              THEN Raised
              ELSE Ok(Some(<<Val(c["source_vocab_size"])>>))
    ELSE IF ~m.from_cmdline THEN Raised
         ELSE FillVocabSizes(fs, c["dictionaries"],
                             Repeat(-1, Val(c["factors"])), 1, <<>>)

DeriveTargetVocabSize(c, m, fs) ==
    IF c["target_vocab_size"] # Some(-1) THEN Ok(c["target_vocab_size"])
    ELSE IF c["dictionaries"] = None \/ Val(c["dictionaries"]) = <<>>
         THEN Raised
    ELSE DetermineVocabSizeFromFile(fs,
             Val(c["dictionaries"])[Len(Val(c["dictionaries"]))])

DeriveDimPerFactor(c, m) ==
    IF c["dim_per_factor"] # None THEN Ok(c["dim_per_factor"])
    ELSE IF Val(c["factors"]) # 1 THEN Raised
    ELSE Ok(Some(<<Val(c["embedding_size"])>>))

\* A slip: the value already in the configuration is not kept.
DeriveDropoutEmbedding_Overwrites(c, m) ==
    Ok(Some(IF m.from_cmdline THEN DROPOUT_CMDLINE ELSE DROPOUT_FILE))

DeriveDropoutEmbedding(c, m) ==
    IF c["dropout_embedding"] # None THEN Ok(c["dropout_embedding"])
    ELSE Ok(Some(IF m.from_cmdline THEN DROPOUT_CMDLINE ELSE DROPOUT_FILE))

DeriveDropoutHidden(c, m) ==
    IF c["dropout_hidden"] # None THEN Ok(c["dropout_hidden"])
    ELSE Ok(Some(IF m.from_cmdline THEN DROPOUT_CMDLINE ELSE DROPOUT_FILE))

\* param.derivation_func(config, meta_config)
Derive(func, c, m, fs) ==
    CASE func = "_derive_model_version" -> DeriveModelVersion(c, m)
      [] func = "theano_compat" -> DeriveTheanoCompat(c, m)
      [] func = "source_dicts" -> DeriveSourceDicts(c, m)
      [] func = "target_dict" -> DeriveTargetDict(c, m)
      [] func = "_derive_target_embedding_size" ->
             DeriveTargetEmbeddingSize(c, m)
      [] func = "_derive_source_dataset" -> DeriveSourceDataset(c, m)
      [] func = "_derive_target_dataset" -> DeriveTargetDataset(c, m)
      [] func = "_derive_source_vocab_sizes" ->
             DeriveSourceVocabSizes(c, m, fs)
      [] func = "_derive_target_vocab_size" ->
             DeriveTargetVocabSize(c, m, fs)
      [] func = "_derive_dim_per_factor" -> DeriveDimPerFactor(c, m)
      [] func = "_derive_dropout_embedding" -> DeriveDropoutEmbedding(c, m)
      [] func = "_derive_dropout_hidden" -> DeriveDropoutHidden(c, m)
      [] func = "_derive_valid_source_dataset" ->
             DeriveValidSourceDataset(c, m)
      [] func = "_derive_valid_target_dataset" ->
             DeriveValidTargetDataset(c, m)

\* `Run derivation functions' : the loop over the table from parameter i
\* on.  Each result is written into the configuration before the next
\* function is called; the loop ends at the first sys.exit or exception.
RECURSIVE RunDerivations(_, _, _, _, _, _)
RunDerivations(params, i, c, m, fs, acc) ==
    IF i > Len(params) THEN [acc EXCEPT !.config = c]
    ELSE IF params[i].derivation_func = ""
         THEN RunDerivations(params, i + 1, c, m, fs, acc)
    ELSE LET r == Derive(params[i].derivation_func, c, m, fs)
             acc2 == [acc EXCEPT !.opened = @ \o r.opened,
                                 !.log = @ \o r.log,
                                 !.derived = Append(@, params[i].name),
                                 !.status = r.status]
         IN  IF r.status = "ok"
             THEN RunDerivations(params, i + 1,
                                 SetAttr(c, params[i].name, r.val), m, fs,
                                 acc2)
             ELSE [acc2 EXCEPT !.config = c]

DerivationPass(t, c, m, fs) ==
    RunDerivations(AllParams(t), 1, c, m, fs,
                   [status |-> "ok", config |-> c, opened |-> <<>>,
                    log |-> <<>>, derived |-> <<>>])


\* ------------------------------------------------------------------------
\* read_config_from_cmdline
\* ------------------------------------------------------------------------

\* Lines 666-710: the specification is built, the internal parameters get
\* their defaults and the command line is parsed.  A usage error ends the
\* process with status 2 (argparse's parser.error).
CmdParse ==
    /\ fn = "read_config_from_cmdline" /\ pc = "start"
    /\ meta_config' = [from_cmdline |-> TRUE, from_theano |-> FALSE]
    /\ IF ParseFails(table, argv)
       THEN /\ pc' = "exited"
            /\ exit_status' = Some(2)
            /\ UNCHANGED config
       ELSE /\ pc' = "parsed"
            /\ config' = ParsedConfig(table, argv)
            /\ UNCHANGED exit_status
    /\ UNCHANGED <<fn, table, argv, files, error_messages, log, opened,
                   derived, returned>>

\* A slip: the messages are logged but the process does not exit.
CmdCheck_NoExit ==
    /\ fn = "read_config_from_cmdline" /\ pc = "parsed"
    /\ error_messages' = CheckConfigConsistency(config)
    /\ log' = log \o error_messages'
    /\ pc' = "checked"
    /\ UNCHANGED <<fn, table, argv, files, config, meta_config, opened,
                   derived, returned, exit_status>>

\* Lines 712-717: the consistency checks; any message is logged and the
\* process exits with status 1.
CmdCheck ==
    /\ fn = "read_config_from_cmdline" /\ pc = "parsed"
    /\ error_messages' = CheckConfigConsistency(config)
    /\ IF Len(error_messages') > 0
       THEN /\ log' = log \o error_messages'
            /\ exit_status' = Some(1)
            /\ pc' = "exited"
       ELSE /\ pc' = "checked"
            /\ UNCHANGED <<log, exit_status>>
    /\ UNCHANGED <<fn, table, argv, files, config, meta_config, opened,
                   derived, returned>>

\* The end of either loader, lines 719-726 and 780-787: the derivation
\* pass, then `return config'.
FinishLoad ==
    LET r == DerivationPass(table, config, meta_config, files)
    IN  /\ config' = r.config
        /\ opened' = opened \o r.opened
        /\ log' = log \o r.log
        /\ derived' = r.derived
        /\ pc' = CASE r.status = "ok" -> "returned"
                   [] r.status = "exit" -> "exited"
                   [] OTHER -> "raised"
        /\ exit_status' = IF r.status = "exit" THEN Some(1) ELSE exit_status

CmdDerive ==
    /\ fn = "read_config_from_cmdline" /\ pc = "checked"
    /\ FinishLoad
    /\ UNCHANGED <<fn, table, argv, files, meta_config, error_messages,
                   returned>>

\* ------------------------------------------------------------------------
\* load_config_from_json_file
\* ------------------------------------------------------------------------

\* A slip: the pickle file is preferred when it is there.
ReadConfigFile_PklFirst(fs) ==
    IF fs.pkl # None
    THEN [opened |-> <<"pkl">>, dict |-> fs.pkl]
    ELSE [opened |-> <<"pkl", "json">>, dict |-> fs.json]

\* Lines 741-754, the nested try blocks: <basename>.json is tried first
\* and <basename>.pkl only when that fails.  A file that cannot be opened
\* or parsed is None; the result is what was opened and the dictionary
\* that was loaded (None when both attempts fail).
ReadConfigFile(fs) ==
    IF fs.json # None
    THEN [opened |-> <<"json">>, dict |-> fs.json]
    ELSE [opened |-> <<"json", "pkl">>, dict |-> fs.pkl]

\* Lines 741-759: when both attempts fail the error is logged and the
\* process exits with status 1; otherwise the meta configuration is built.
LoadConfigFile ==
    /\ fn = "load_config_from_json_file" /\ pc = "start"
    /\ LET r == ReadConfigFile(files)
       IN  /\ opened' = opened \o r.opened
           /\ IF r.dict # None
              THEN /\ config' = Val(r.dict)
                   /\ meta_config' =
                          [from_cmdline |-> FALSE,
                           from_theano |->
                               ~HasAttr(config', "embedding_size")]
                   /\ pc' = "loaded"
                   /\ UNCHANGED <<log, exit_status>>
              ELSE /\ log' = log \o <<"config file is missing">>
                   /\ exit_status' = Some(1)
                   /\ pc' = "exited"
                   /\ UNCHANGED <<config, meta_config>>
    /\ UNCHANGED <<fn, table, argv, files, error_messages, derived,
                   returned>>

\* A slip: when both names are there the current one is kept.
RECURSIVE UpdateLegacy_PreferCurrent(_, _, _, _)
UpdateLegacy_PreferCurrent(name, legacy, k, c) ==
    IF k > Len(legacy) THEN [ok |-> TRUE, config |-> c]
    ELSE IF HasAttr(c, legacy[k])
         THEN IF HasAttr(c, name)
              THEN UpdateLegacy_PreferCurrent(name, legacy, k + 1,
                       DelAttr(c, legacy[k]))
              ELSE UpdateLegacy_PreferCurrent(name, legacy, k + 1,
                       DelAttr(SetAttr(c, name, c[legacy[k]]), legacy[k]))
         ELSE UpdateLegacy_PreferCurrent(name, legacy, k + 1, c)

\* A slip: the legacy attribute is copied but not deleted.
RECURSIVE UpdateLegacy_NoDelete(_, _, _, _)
UpdateLegacy_NoDelete(name, legacy, k, c) ==
    IF k > Len(legacy) THEN [ok |-> TRUE, config |-> c]
    ELSE IF HasAttr(c, legacy[k])
         THEN IF HasAttr(c, name) THEN [ok |-> FALSE, config |-> c]
              ELSE UpdateLegacy_NoDelete(name, legacy, k + 1,
                       SetAttr(c, name, c[legacy[k]]))
         ELSE UpdateLegacy_NoDelete(name, legacy, k + 1, c)

\* Lines 764-772 for one parameter: each legacy name found in the
\* configuration is moved to the current name, which must not be there.
RECURSIVE UpdateLegacy(_, _, _, _)
UpdateLegacy(name, legacy, k, c) ==
    IF k > Len(legacy) THEN [ok |-> TRUE, config |-> c]
    ELSE IF HasAttr(c, legacy[k])
         THEN IF HasAttr(c, name) THEN [ok |-> FALSE, config |-> c]
              ELSE UpdateLegacy(name, legacy, k + 1,
                       DelAttr(SetAttr(c, name, c[legacy[k]]), legacy[k]))
         ELSE UpdateLegacy(name, legacy, k + 1, c)

\* Lines 761-772: `Update config to use current parameter names'.
RECURSIVE UpdateNamesFrom(_, _, _)
UpdateNamesFrom(params, i, c) ==
    IF i > Len(params) THEN [ok |-> TRUE, config |-> c]
    ELSE LET r == UpdateLegacy(params[i].name, params[i].legacy_names, 1, c)
         IN  IF r.ok THEN UpdateNamesFrom(params, i + 1, r.config) ELSE r

UpdateNames ==
    /\ fn = "load_config_from_json_file" /\ pc = "loaded"
    /\ LET r == UpdateNamesFrom(AllParams(table), 1, config)
       IN  /\ config' = r.config
           /\ pc' = IF r.ok THEN "updated" ELSE "raised"
    /\ UNCHANGED <<fn, table, argv, files, meta_config, error_messages, log,
                   exit_status, opened, derived, returned>>

\* Lines 774-778: `Add missing parameters'.
RECURSIVE AddMissingFrom(_, _, _)
AddMissingFrom(params, i, c) ==
    IF i > Len(params) THEN c
    ELSE AddMissingFrom(params, i + 1,
             IF HasAttr(c, params[i].name) THEN c
             ELSE SetAttr(c, params[i].name, params[i].default))

AddMissing ==
    /\ fn = "load_config_from_json_file" /\ pc = "updated"
    /\ config' = AddMissingFrom(AllParams(table), 1, config)
    /\ pc' = "filled"
    /\ UNCHANGED <<fn, table, argv, files, meta_config, error_messages, log,
                   exit_status, opened, derived, returned>>

FileDerive ==
    /\ fn = "load_config_from_json_file" /\ pc = "filled"
    /\ FinishLoad
    /\ UNCHANGED <<fn, table, argv, files, meta_config, error_messages,
                   returned>>

\* ------------------------------------------------------------------------
\* Persisting a configuration
\* ------------------------------------------------------------------------

\* The returned configuration is written out as the key/value file
\* <basename>.json, one key per attribute, and the file loader is then
\* called on it.  JSON keeps ints, booleans, None, floats (written by repr)
\* and lists of them; a str comes back as an equal unicode string.
SaveConfig ==
    /\ pc = "returned" /\ returned = None
    /\ returned' = Some(config)
    /\ files' = [files EXCEPT !.json = Some(config)]
    /\ fn' = "load_config_from_json_file"
    /\ pc' = "start"
    /\ config' = EmptyNamespace
    /\ meta_config' = None
    /\ error_messages' = <<>>
    /\ log' = <<>>
    /\ opened' = <<>>
    /\ derived' = <<>>
    /\ UNCHANGED <<table, argv, exit_status>>


\* ------------------------------------------------------------------------
\* Inputs: command lines and dictionary files
\* ------------------------------------------------------------------------

DictNames == <<"D1", "D2", "D3", "D4", "D5">>

\* --dictionaries with n files.
DictList(n) == SubSeq(DictNames, 1, n)

\* The dictionary files: file k of DictNames maps its words to the indices
\* 0..k+1, unless it is in `unreadable'.
DictFiles(unreadable) ==
    [d \in SeqToSet(DictNames) |->
        IF d \in unreadable THEN None
        ELSE Some(0..(1 + CHOOSE k \in 1..Len(DictNames) : DictNames[k] = d))]

DictWorlds == {DictFiles(u) : u \in {{}, {"D1"}, {"D2"}}}

\* A vocabulary size given explicitly.
GivenVocab == 9

\* No option or one option of the given alias with a value of Vals.
Opt(alias, Vals) == {<<>>} \cup {<<Tok(alias, v)>> : v \in Vals}

Flag(alias) == {<<>>, <<Tok(alias, TRUE)>>}

\* Lists of at most maxlen sizes: k explicit sizes, then at most one -1.
VocabLists(maxlen) ==
    {v \in {Repeat(GivenVocab, k) \o Repeat(-1, j) :
               k \in 0..maxlen, j \in 0..1} :
        Len(v) \in 1..maxlen}

\* Lists of n dimensions 1,...,1,d with d in {1, 2}.
DimLists(maxlen) ==
    {Repeat(1, n - 1) \o <<d>> : n \in 1..maxlen, d \in {1, 2}}

DatasetChoices ==
    { ("source_dataset" :> s) @@ ("target_dataset" :> t) @@ ("datasets" :> d) :
        s \in Opt("--source_dataset", {"", "A"}),
        t \in Opt("--target_dataset", {"", "B"}),
        d \in Opt("--datasets", {<<"A", "B">>}) }

ValidChoices ==
    { ("valid_source_dataset" :> s) @@ ("valid_target_dataset" :> t)
      @@ ("valid_datasets" :> d) :
        s \in Opt("--valid_source_dataset", {"VA"}),
        t \in Opt("--valid_target_dataset", {"VB"}),
        d \in Opt("--valid_datasets", {<<"VA", "VB">>}) }

FactorChoices ==
    { ("dictionaries" :> di) @@ ("factors" :> f) @@ ("embedding_size" :> e)
      @@ ("dim_per_factor" :> dp) @@ ("source_vocab_sizes" :> sv)
      @@ ("target_vocab_size" :> tv)
      @@ ("tie_encoder_decoder_embeddings" :> ti) :
        di \in Opt("--dictionaries", {DictList(n) : n \in 1..MaxFactors + 1}),
        f \in Opt("--factors", 1..MaxFactors),
        e \in Opt("--embedding_size", {MaxFactors}),
        dp \in Opt("--dim_per_factor", DimLists(MaxFactors)),
        sv \in Opt("--source_vocab_sizes", VocabLists(MaxFactors + 1)),
        tv \in Opt("--target_vocab_size", {GivenVocab}),
        ti \in Flag("--tie_encoder_decoder_embeddings") }

\* Uses of the aliases.
AliasChoices ==
    { ("saveto" :> sa) @@ ("embedding_size" :> e) @@ ("state_size" :> st)
      @@ ("learning_rate" :> lr) @@ ("use_layer_norm" :> ln)
      @@ ("dropout_embedding" :> de) @@ ("dropout_hidden" :> dh) :
        sa \in Opt("--model", {"M1"}) \cup Opt("--saveto", {"M2"})
               \cup { <<Tok("--model", "M1"), Tok("--saveto", "M2")>>,
                      <<Tok("--saveto", "M2"), Tok("--model", "M1")>> },
        e \in Opt("--dim_word", {2})
              \cup { <<Tok("--embedding_size", 2), Tok("--dim_word", 3)>> },
        st \in Opt("--dim", {5}),
        lr \in Opt("--lrate", {"0.5"}),
        ln \in Flag("--layer_normalisation"),
        de \in Opt("--dropout_embedding", {"0.5"}),
        dh \in Opt("--dropout_hidden", {"0.5"}) }

\* Uses of the plain options.
PlainChoices ==
    { ("use_dropout" :> ud) @@ ("reload" :> re) @@ ("normalize" :> no)
      @@ ("saveFreq" :> sf) @@ ("beam_size" :> be)
      @@ ("reload_training_progress" :> rt) :
        ud \in Flag("--use_dropout"),
        re \in Opt("--reload", {"R"}),
        no \in Flag("--no_normalize"),
        sf \in Opt("--saveFreq", {7}),
        be \in Opt("--beam_size", {3}),
        rt \in Flag("--no_reload_training_progress") }

CliNames == {p.name : p \in {q \in CmdParams(ParamSpecs) : ~IsInternal(q)}}

NoArgs == [n \in CliNames |-> <<>>]

BaseDatasets ==
    ("source_dataset" :> <<Tok("--source_dataset", "A")>>)
    @@ ("target_dataset" :> <<Tok("--target_dataset", "B")>>)

BaseValid == ("valid_datasets" :> <<Tok("--valid_datasets", <<"VA", "VB">>)>>)

BaseFactors ==
    { ("dictionaries" :> <<Tok("--dictionaries", DictList(2))>>),
      ("dictionaries" :> <<Tok("--dictionaries", DictList(3))>>)
        @@ ("factors" :> <<Tok("--factors", 2)>>)
        @@ ("dim_per_factor" :> <<Tok("--dim_per_factor", <<1, 1>>)>>)
        @@ ("embedding_size" :> <<Tok("--embedding_size", 2)>>),
      ("dictionaries" :> <<Tok("--dictionaries", DictList(3))>>)
        @@ ("factors" :> <<Tok("--factors", 2)>>),
      NoArgs }

AllReadable == DictFiles({})

\* The inputs of the command-line reader, a command line and the dictionary
\* files: every combination of the dataset and validation options over a few
\* factor settings, every combination of the factor options (with readable
\* and unreadable dictionaries) over one dataset setting, and every use of
\* the aliases and of the plain options over one setting of both.
CmdInputs ==
    {[argv |-> d @@ v @@ f @@ NoArgs, dicts |-> AllReadable] :
        d \in DatasetChoices, v \in ValidChoices, f \in BaseFactors}
    \cup {[argv |-> f @@ BaseDatasets @@ BaseValid @@ NoArgs, dicts |-> w] :
            f \in FactorChoices, w \in DictWorlds}
    \cup {[argv |-> a
                    @@ ("dictionaries" :> <<Tok("--dictionaries", DictList(2))>>)
                    @@ BaseDatasets @@ BaseValid @@ NoArgs,
           dicts |-> AllReadable] : a \in AliasChoices \cup PlainChoices}

InitCmd ==
    /\ fn = "read_config_from_cmdline" /\ pc = "start"
    /\ table = ParamSpecs
    /\ \E i \in CmdInputs :
          /\ argv = i.argv
          /\ files = [json |-> None, pkl |-> None, dicts |-> i.dicts]
    /\ config = EmptyNamespace
    /\ meta_config = None /\ error_messages = <<>> /\ log = <<>>
    /\ exit_status = None /\ opened = <<>> /\ derived = <<>>
    /\ returned = None

NextCmd ==
    \/ CmdParse
    \/ CmdCheck
    \/ CmdDerive
    \/ SaveConfig
    \/ LoadConfigFile
    \/ UpdateNames
    \/ AddMissing
    \/ FileDerive

SpecCmd == InitCmd /\ [][NextCmd]_vars


\* ------------------------------------------------------------------------
\* Inputs: configuration files
\* ------------------------------------------------------------------------

\* A key that is absent or holds one of Vals.
Key(k, Vals) == {EmptyNamespace} \cup {k :> Some(v) : v \in Vals}

\* A parameter stored under its current name, a legacy name, both or
\* neither.
LegacyPair(name, v, legacy, LVals) ==
    {EmptyNamespace, name :> Some(v)}
    \cup {legacy :> Some(lv) : lv \in LVals}
    \cup {(name :> Some(v)) @@ (legacy :> Some(lv)) : lv \in LVals}

BaseFile ==
    ("datasets" :> Some(<<"A", "B">>))
    @@ ("valid_datasets" :> Some(<<"VA", "VB">>))
    @@ ("dictionaries" :> Some(DictList(2)))

\* Files that differ in the names their parameters are stored under.
LegacyFiles ==
    { e @@ st @@ tv @@ ln @@ lr @@ sv @@ ("model_version" :> Some("0.1"))
      @@ BaseFile :
        e \in LegacyPair("embedding_size", 2, "dim_word", {3}),
        st \in LegacyPair("state_size", 6, "dim", {5}),
        tv \in LegacyPair("target_vocab_size", GivenVocab, "n_words",
                          {8, -1}),
        ln \in LegacyPair("use_layer_norm", FALSE, "layer_normalisation",
                          {TRUE}),
        lr \in LegacyPair("learning_rate", "0.1", "lrate", {"0.5"}),
        sv \in {"source_vocab_sizes" :> Some(<<GivenVocab>>),
                "n_words_src" :> Some(GivenVocab)} }

\* Files that differ in their origin, version and factor settings.
VersionFiles ==
    { e @@ mv @@ ud @@ sv @@ f @@ dp @@ ti @@ di
      @@ ("datasets" :> Some(<<"A", "B">>))
      @@ ("valid_datasets" :> Some(<<"VA", "VB">>)) :
        e \in Key("embedding_size", {2}) \cup Key("dim_word", {2}),
        mv \in Key("model_version", {"0.2"}) \cup {"model_version" :> None},
        ud \in Key("use_dropout", {TRUE}),
        sv \in Key("source_vocab_sizes",
                   {Repeat(GivenVocab, n) : n \in 1..MaxFactors})
               \cup Key("n_words_src", {GivenVocab})
               \cup Key("source_vocab_size", {GivenVocab}),
        f \in Key("factors", 1..MaxFactors),
        dp \in Key("dim_per_factor", DimLists(MaxFactors)),
        ti \in Key("tie_encoder_decoder_embeddings", {TRUE}),
        di \in Key("dictionaries", {DictList(2), DictList(3)}) \ {EmptyNamespace} }

\* Files that differ in how the corpora are named.
DatasetFiles ==
    { s @@ t @@ d @@ vs @@ vd @@ ("embedding_size" :> Some(2))
      @@ ("source_vocab_sizes" :> Some(<<GivenVocab>>))
      @@ ("dictionaries" :> Some(DictList(2))) :
        s \in Key("source_dataset", {"A"}),
        t \in Key("target_dataset", {"B"}),
        d \in Key("datasets", {<<"A", "B">>}),
        vs \in Key("valid_source_dataset", {"VA"}),
        vd \in Key("valid_datasets", {<<"VA", "VB">>}) }

ModernFile ==
    ("embedding_size" :> Some(2)) @@ ("model_version" :> Some("0.2"))
    @@ ("source_vocab_sizes" :> Some(<<GivenVocab>>)) @@ BaseFile

TheanoFile ==
    ("dim_word" :> Some(3)) @@ ("n_words_src" :> Some(GivenVocab))
    @@ ("n_words" :> Some(8)) @@ BaseFile

\* The inputs of the file loader: what <basename>.json and <basename>.pkl
\* hold (None: the file is missing or cannot be parsed) and the dictionary
\* files.
FileInputs ==
    {[json |-> Some(f), pkl |-> None, dicts |-> w] :
        f \in LegacyFiles, w \in {AllReadable, DictFiles({"D2"})}}
    \cup {[json |-> Some(f), pkl |-> None, dicts |-> AllReadable] :
            f \in VersionFiles \cup DatasetFiles}
    \cup {[json |-> j, pkl |-> k, dicts |-> AllReadable] :
            j \in {None, Some(ModernFile), Some(TheanoFile)},
            k \in {None, Some(ModernFile), Some(TheanoFile)}}

InitFile ==
    /\ fn = "load_config_from_json_file" /\ pc = "start"
    /\ table = ParamSpecs
    /\ files \in FileInputs
    /\ argv = <<>>
    /\ config = EmptyNamespace
    /\ meta_config = None /\ error_messages = <<>> /\ log = <<>>
    /\ exit_status = None /\ opened = <<>> /\ derived = <<>>
    /\ returned = None

NextFile ==
    \/ LoadConfigFile
    \/ UpdateNames
    \/ AddMissing
    \/ FileDerive
    \/ SaveConfig

SpecFile == InitFile /\ [][NextFile]_vars


\* ------------------------------------------------------------------------
\* _derive_source_vocab_sizes on its own
\* ------------------------------------------------------------------------

\* One call _derive_source_vocab_sizes(config, meta_config): the value it
\* returns is kept in `returned'; the function does not change config.
DeriveVocab ==
    /\ fn = "_derive_source_vocab_sizes" /\ pc = "start"
    /\ LET r == DeriveSourceVocabSizes(config, meta_config, files)
       IN  /\ returned' = r.val
           /\ opened' = r.opened
           /\ log' = r.log
           /\ pc' = CASE r.status = "ok" -> "returned"
                      [] r.status = "exit" -> "exited"
                      [] OTHER -> "raised"
           /\ exit_status' = IF r.status = "exit" THEN Some(1) ELSE None
    /\ derived' = <<"source_vocab_sizes">>
    /\ UNCHANGED <<fn, table, argv, files, config, meta_config,
                   error_messages>>

\* The configurations the function is called on.  From the command line
\* the list has passed the consistency check (at most `factors' entries, one
\* dictionary per factor and one more) and there is neither n_words_src nor
\* source_vocab_size; from a file every combination of the three keys can
\* be there, with or without an embedding_size key.
VocabConfigsFor(from_cmdline, f) ==
    { ("source_vocab_sizes" :> sv) @@ ("factors" :> Some(f))
      @@ ("dictionaries" :> Some(DictList(f + 1))) @@ nw @@ so :
        sv \in {None} \cup {Some(v) : v \in
                   {w \in VocabLists(MaxFactors + 1) :
                       from_cmdline => Len(w) <= f}},
        nw \in IF from_cmdline THEN {EmptyNamespace}
               ELSE Key("n_words_src", {GivenVocab}),
        so \in IF from_cmdline THEN {EmptyNamespace}
               ELSE Key("source_vocab_size", {GivenVocab + 1}) }

VocabConfigs(from_cmdline) ==
    UNION {VocabConfigsFor(from_cmdline, f) : f \in 1..MaxFactors}

VocabInputs ==
    {[config |-> c, meta |-> m, dicts |-> w] :
        c \in VocabConfigs(TRUE),
        m \in {[from_cmdline |-> TRUE, from_theano |-> FALSE]},
        w \in DictWorlds}
    \cup {[config |-> c, meta |-> m, dicts |-> w] :
            c \in VocabConfigs(FALSE),
            m \in {[from_cmdline |-> FALSE, from_theano |-> t] :
                      t \in BOOLEAN},
            w \in DictWorlds}

InitVocab ==
    /\ fn = "_derive_source_vocab_sizes" /\ pc = "start"
    /\ table = ParamSpecs
    /\ \E i \in VocabInputs :
          /\ config = i.config
          /\ meta_config = i.meta
          /\ files = [json |-> None, pkl |-> None, dicts |-> i.dicts]
    /\ argv = <<>> /\ error_messages = <<>> /\ log = <<>>
    /\ exit_status = None /\ opened = <<>> /\ derived = <<>>
    /\ returned = None

NextVocab == DeriveVocab

SpecVocab == InitVocab /\ [][NextVocab]_vars

\* ------------------------------------------------------------------------
\* Both loaders
\* ------------------------------------------------------------------------

\* Either entry point is called: the command-line reader on a command
\* line, or the file loader on a configuration file; what the reader
\* returns is saved and loaded again.
InitBoth == InitCmd \/ InitFile

NextBoth ==
    \/ CmdParse
    \/ CmdCheck
    \/ CmdDerive
    \/ LoadConfigFile
    \/ UpdateNames
    \/ AddMissing
    \/ FileDerive
    \/ SaveConfig

SpecBoth == InitBoth /\ [][NextBoth]_vars

\* ------------------------------------------------------------------------
\* Properties
\* ------------------------------------------------------------------------

CmdRunning == fn = "read_config_from_cmdline"

FileRunning == fn = "load_config_from_json_file"

Ended == pc \in {"returned", "exited", "raised"}

\* The value given to a parameter on the command line (its last option).
Given(name) == argv[name][Len(argv[name])].val

HasDuplicate(seq) ==
    \E i, j \in 1..Len(seq) : i < j /\ seq[i] = seq[j]

RECURSIVE NamesFrom(_, _)
NamesFrom(params, i) ==
    IF i > Len(params) THEN <<>>
    ELSE <<params[i].name>> \o params[i].legacy_names
         \o NamesFrom(params, i + 1)

RECURSIVE AliasesFrom(_, _)
AliasesFrom(params, i) ==
    IF i > Len(params) THEN <<>>
    ELSE params[i].visible_arg_names \o params[i].hidden_arg_names
         \o AliasesFrom(params, i + 1)

\* C1: a command line that supplies only --source_dataset A,
\* --target_dataset B and --dictionaries D1 D2, with readable dictionaries,
\* makes read_config_from_cmdline return a configuration with
\* source_dataset = A, target_dataset = B, dictionaries = [D1, D2] and
\* factors = 1.
C1_OnlyRequiredOptionsReturn ==
    ( /\ CmdRunning /\ Ended
      /\ \A n \in CliNames :
            argv[n] # <<>>
            <=> n \in {"source_dataset", "target_dataset", "dictionaries"}
      /\ Len(Given("dictionaries")) = 2
      /\ Given("source_dataset") # "" /\ Given("target_dataset") # ""
      /\ files.dicts = AllReadable )
    => /\ pc = "returned"
       /\ config["source_dataset"] = Some(Given("source_dataset"))
       /\ config["target_dataset"] = Some(Given("target_dataset"))
       /\ config["dictionaries"] = Some(Given("dictionaries"))
       /\ config["factors"] = Some(1)

\* C2: a configuration returned by read_config_from_cmdline, written out
\* and loaded again by load_config_from_json_file, comes back with the same
\* value for every declared parameter name.
C2_RoundTrip ==
    (FileRunning /\ returned # None /\ Ended)
    => /\ pc = "returned"
       /\ \A n \in ParamNames :
             HasAttr(config, n) /\ config[n] = Val(returned)[n]

C2_Witness ==
    /\ FileRunning /\ returned # None /\ pc = "returned"
    /\ Val(returned)["dropout_embedding"] = Some(DROPOUT_CMDLINE)
    /\ Val(returned)["model_version"] = Some(CURRENT_VERSION)
    /\ Val(returned)["factors"] = Some(2)
    /\ config["target_vocab_size"] = Some(5)

\* C3: a configuration that read_config_from_cmdline returns has every
\* declared parameter name set, len(dim_per_factor) = factors,
\* sum(dim_per_factor) = embedding_size, len(dictionaries) = factors + 1,
\* len(source_vocab_sizes) = factors, and non-empty source_dataset and
\* target_dataset.
C3_ReturnedConsistent ==
    (CmdRunning /\ pc = "returned")
    => /\ ParamNames \subseteq DOMAIN config
       /\ Len(Val(config["dim_per_factor"])) = Val(config["factors"])
       /\ SumSeq(Val(config["dim_per_factor"]))
            = Val(config["embedding_size"])
       /\ Len(Val(config["dictionaries"])) = Val(config["factors"]) + 1
       /\ Len(Val(config["source_vocab_sizes"])) = Val(config["factors"])
       /\ TruthyStr(config["source_dataset"])
       /\ TruthyStr(config["target_dataset"])

\* C4: constructing a ConfigSpecification whose table holds the same
\* command-line alias twice (on two parameters or on one) fails.
C4_DuplicateAliasFails ==
    ( /\ fn = "ConfigSpecification" /\ pc # "start"
      /\ HasDuplicate(AliasesFrom(AllParams(table), 1)) )
    => pc = "raised"

\* C5: constructing a ConfigSpecification in which a parameter name or
\* legacy name equals another parameter name or legacy name, in either
\* declaration order, within or across groups, fails.
C5_DuplicateNameFails ==
    ( /\ fn = "ConfigSpecification" /\ pc # "start"
      /\ HasDuplicate(NamesFrom(AllParams(table), 1)) )
    => pc = "raised"

\* A legacy name in group '' equals the name of a parameter declared later,
\* in group 'data', and no alias is duplicated.
C5_Witness ==
    /\ fn = "ConfigSpecification" /\ pc = "raised"
    /\ Len(table[""]) = 1 /\ Len(table["data"]) = 1
    /\ table[""][1].name = "p" /\ table[""][1].legacy_names = <<"q">>
    /\ table["data"][1].name = "q"
    /\ ~HasDuplicate(AliasesFrom(AllParams(table), 1))

\* C6: the parser rejects a command line that uses two different aliases of
\* the same parameter.
C6_TwoAliasesRejected ==
    ( /\ CmdRunning /\ pc # "start"
      /\ \E n \in CliNames :
            \E i, j \in 1..Len(argv[n]) : argv[n][i].opt # argv[n][j].opt )
    => pc = "exited" /\ exit_status = Some(2)

\* The file the loader read.
FileUsed == IF files.json # None THEN Val(files.json) ELSE Val(files.pkl)

LegacyPairs ==
    {<<p.name, p.legacy_names[k]>> :
        p \in {q \in CmdParams(ParamSpecs) : q.legacy_names # <<>>},
        k \in {1}}

MovedPairs ==
    {pr \in LegacyPairs :
        HasAttr(FileUsed, pr[2]) /\ ~HasAttr(FileUsed, pr[1])}

\* C7 as stated: for every legacy name L found in the file without the
\* current name, the returned configuration holds the file's value under
\* the current name and has no attribute L.
C7_LegacyValueReturned ==
    (FileRunning /\ returned = None /\ pc = "returned")
    => \A pr \in MovedPairs :
          /\ ~HasAttr(config, pr[2])
          /\ config[pr[1]] = FileUsed[pr[2]]

TargetDictSize ==
    MaxOf(Val(files.dicts[Val(config["dictionaries"])[
                              Len(Val(config["dictionaries"]))]])) + 1

\* C7, amended: for every legacy name L found in the file without the
\* current name, the loader sets the current name to the file's value and
\* removes L; the returned configuration has no attribute L and holds that
\* value under the current name, except that a target_vocab_size of -1 is
\* replaced by the size read from the target dictionary.
C7_LegacyValueMoved ==
    (FileRunning /\ returned = None /\ pc \in {"updated", "returned"})
    => \A pr \in MovedPairs :
          /\ ~HasAttr(config, pr[2])
          /\ IF /\ pc = "returned" /\ pr[1] = "target_vocab_size"
                /\ FileUsed[pr[2]] = Some(-1)
             THEN config[pr[1]] = Some(TargetDictSize)
             ELSE config[pr[1]] = FileUsed[pr[2]]

C7_Witness ==
    /\ FileRunning /\ returned = None /\ pc = "returned"
    /\ HasAttr(FileUsed, "dim_word") /\ ~HasAttr(FileUsed, "embedding_size")
    /\ config["embedding_size"] = Some(3)
    /\ HasAttr(FileUsed, "n_words") /\ FileUsed["n_words"] = Some(-1)
    /\ config["target_vocab_size"] = Some(4)

\* C8: the loader opens <basename>.json first and <basename>.pkl only when
\* the .json cannot be loaded; when the .json loads the .pkl is never read;
\* when both fail it logs the missing-file error and exits with status 1.
C8_JsonThenPkl ==
    (FileRunning /\ pc # "start")
    => /\ opened[1] = "json"
       /\ files.json # None
          => /\ "pkl" \notin SeqToSet(opened)
             /\ pc = "loaded" => config = Val(files.json)
       /\ files.json = None => opened[2] = "pkl"
       /\ (files.json = None /\ files.pkl # None /\ pc = "loaded")
          => config = Val(files.pkl)
       /\ (files.json = None /\ files.pkl = None)
          => /\ pc = "exited" /\ exit_status = Some(1)
             /\ log = <<"config file is missing">>

C8_Witness ==
    /\ FileRunning /\ pc = "returned" /\ returned = None
    /\ files.json = None /\ files.pkl = Some(TheanoFile)
    /\ opened = <<"json", "pkl">>
    /\ config["embedding_size"] = Some(3)

\* The configuration the consistency checker has just looked at.
JustChecked ==
    /\ CmdRunning
    /\ pc = "checked" \/ (pc = "exited" /\ error_messages # <<>>)

Reported(msg) == msg \in SeqToSet(error_messages)

\* C9: the consistency checker reports every violated condition; none is
\* suppressed because another one was found.
C9_EveryViolationReported ==
    JustChecked
    => /\ (~TruthyList(config["datasets"])
           /\ ~TruthyStr(config["source_dataset"]))
          => Reported("--source_dataset is required")
       /\ (~TruthyList(config["datasets"])
           /\ ~TruthyStr(config["target_dataset"]))
          => Reported("--target_dataset is required")
       /\ (TruthyList(config["datasets"])
           /\ (TruthyStr(config["source_dataset"])
               \/ TruthyStr(config["target_dataset"])))
          => Reported("argument clash: --datasets")
       /\ (TruthyList(config["valid_datasets"])
           /\ (TruthyStr(config["valid_source_dataset"])
               \/ TruthyStr(config["valid_target_dataset"])))
          => Reported("argument clash: --valid_datasets")
       /\ (config["source_vocab_sizes"] # None
           /\ Len(Val(config["source_vocab_sizes"])) > Val(config["factors"]))
          => Reported("too many values supplied to --source_vocab_sizes")
       /\ (config["dim_per_factor"] = None /\ Val(config["factors"]) # 1)
          => Reported("you must specify dim_per_factor")
       /\ (config["dim_per_factor"] # None
           /\ Len(Val(config["dim_per_factor"])) # Val(config["factors"]))
          => Reported("mismatch between --factors and --dim_per_factor")
       /\ (config["dim_per_factor"] # None
           /\ SumSeq(Val(config["dim_per_factor"]))
                # Val(config["embedding_size"]))
          => Reported("mismatch between --embedding_size and --dim_per_factor")
       /\ Len(Val(config["dictionaries"])) # Val(config["factors"]) + 1
          => Reported("--dictionaries must specify one dictionary per factor")

DatasetsClashGiven ==
    /\ argv["datasets"] # <<>>
    /\ \/ argv["source_dataset"] # <<>> /\ Given("source_dataset") # ""
       \/ argv["target_dataset"] # <<>> /\ Given("target_dataset") # ""

ClashReported ==
    /\ pc = "exited" /\ exit_status = Some(1)
    /\ "argument clash: --datasets" \in SeqToSet(log)

\* C10 as stated: whenever --datasets is supplied with a non-empty
\* --source_dataset or --target_dataset, the reader exits with status 1 and
\* logs the argument-clash message.
C10_ClashAlwaysReported ==
    (CmdRunning /\ Ended /\ DatasetsClashGiven) => ClashReported

\* C10, amended: whenever the parser accepts a command line that supplies
\* --datasets with a non-empty --source_dataset or --target_dataset, the
\* reader exits with status 1 and logs the argument-clash message.
C10_ClashReportedWhenParsed ==
    (CmdRunning /\ Ended /\ exit_status # Some(2) /\ DatasetsClashGiven)
    => ClashReported

C10_Witness ==
    /\ CmdRunning /\ ClashReported /\ DatasetsClashGiven
    /\ argv["source_dataset"] # <<>> /\ argv["target_dataset"] = <<>>
    /\ Len(error_messages) > 1

FactorsGiven == IF argv["factors"] = <<>> THEN 1 ELSE Given("factors")

NeedDimGiven == FactorsGiven # 1 /\ argv["dim_per_factor"] = <<>>

NeedDimReported ==
    /\ pc = "exited" /\ exit_status = Some(1)
    /\ "you must specify dim_per_factor" \in SeqToSet(log)

\* C11 as stated: whenever factors is not 1 and --dim_per_factor is not
\* supplied, the reader exits with status 1 and logs the `you must specify
\* dim_per_factor' message, whatever the other options are.
C11_NeedDimAlwaysReported ==
    (CmdRunning /\ Ended /\ NeedDimGiven) => NeedDimReported

\* C11, amended: whenever the parser accepts a command line on which
\* factors is not 1 and --dim_per_factor is not supplied, the reader exits
\* with status 1 and logs the `you must specify dim_per_factor' message,
\* whatever the other options are.
C11_NeedDimReportedWhenParsed ==
    (CmdRunning /\ pc \notin {"start", "parsed"} /\ exit_status # Some(2)
     /\ NeedDimGiven)
    => NeedDimReported

\* The message is reported next to the message of another failed check.
C11_Witness ==
    /\ CmdRunning /\ NeedDimReported /\ NeedDimGiven
    /\ FactorsGiven = 2
    /\ Len(error_messages) > 1

DimSumMismatchGiven ==
    /\ argv["dim_per_factor"] # <<>>
    /\ Len(Given("dim_per_factor")) = FactorsGiven
    /\ SumSeq(Given("dim_per_factor"))
         # (IF argv["embedding_size"] = <<>> THEN Embedding_default
            ELSE Given("embedding_size"))

DimSumMismatchReported ==
    /\ pc = "exited" /\ exit_status = Some(1)
    /\ "mismatch between --embedding_size and --dim_per_factor"
         \in SeqToSet(log)

\* C12 as stated: whenever --dim_per_factor is supplied with exactly
\* `factors' entries whose sum differs from embedding_size, the reader
\* exits with status 1 and logs the embedding_size / dim_per_factor
\* mismatch message.
C12_SumMismatchAlwaysReported ==
    (CmdRunning /\ Ended /\ DimSumMismatchGiven) => DimSumMismatchReported

\* C12, amended: whenever the parser accepts a command line on which
\* --dim_per_factor has exactly `factors' entries whose sum differs from
\* embedding_size, the reader exits with status 1 and logs the
\* embedding_size / dim_per_factor mismatch message.
C12_SumMismatchReportedWhenParsed ==
    (CmdRunning /\ pc \notin {"start", "parsed"} /\ exit_status # Some(2)
     /\ DimSumMismatchGiven)
    => DimSumMismatchReported

\* Two factors, two dimensions that sum to 3, embedding size 2.
C12_Witness ==
    /\ CmdRunning /\ DimSumMismatchReported /\ DimSumMismatchGiven
    /\ FactorsGiven = 2 /\ Given("dim_per_factor") = <<1, 2>>
    /\ argv["embedding_size"] # <<>> /\ Given("embedding_size") = 2

\* The file read by the first load has no embedding_size key, ties the
\* embeddings and has one factor (stored, or by default).
TiedTheanoFile ==
    /\ FileRunning /\ returned = None /\ pc = "returned"
    /\ ~HasAttr(FileUsed, "embedding_size")
    /\ HasAttr(FileUsed, "tie_encoder_decoder_embeddings")
    /\ FileUsed["tie_encoder_decoder_embeddings"] = Some(TRUE)
    /\ config["factors"] = Some(1)

\* C13: loading a file that has no embedding_size key, has
\* tie_encoder_decoder_embeddings = True and factors = 1 returns a
\* configuration whose target_embedding_size equals its embedding_size,
\* which is the default or the migrated dim_word value.
C13_TiedSingleFactor ==
    TiedTheanoFile
    => /\ meta_config.from_theano
       /\ config["target_embedding_size"] = config["embedding_size"]
       /\ config["embedding_size"]
            = (IF HasAttr(FileUsed, "dim_word") THEN FileUsed["dim_word"]
               ELSE Some(Embedding_default))

\* The embedding size is the default and the file stores a dim_per_factor
\* that differs from it.
C13_Witness ==
    /\ TiedTheanoFile
    /\ ~HasAttr(FileUsed, "dim_word")
    /\ config["target_embedding_size"] = Some(Embedding_default)
    /\ config["dim_per_factor"] = Some(<<1>>)

\* C14: in read_config_from_cmdline, when the consistency checker returns
\* at least one message, every message is logged, the process exits with
\* status 1, and no derivation function has run; no dictionary file has
\* been read.
C14_ExitBeforeDerivation ==
    (CmdRunning /\ error_messages # <<>>)
    => /\ pc = "exited" /\ exit_status = Some(1)
       /\ log = error_messages
       /\ derived = <<>>
       /\ opened = <<>>
       /\ config = ParsedConfig(table, argv)

\* The only failed check is the number of dictionaries, and the vocabulary
\* sizes were left to be read from the dictionary files.
C14_Witness ==
    /\ CmdRunning /\ pc = "exited"
    /\ error_messages
         = <<"--dictionaries must specify one dictionary per factor">>
    /\ config["source_vocab_sizes"] = None
    /\ config["target_vocab_size"] = Some(-1)
    /\ opened = <<>>

\* The configuration the derivation pass started from: the parsed command
\* line, or the file's contents after the legacy names were moved and the
\* missing parameters added.
PreDerive ==
    IF CmdRunning THEN ParsedConfig(table, argv)
    ELSE AddMissingFrom(AllParams(table), 1,
             UpdateNamesFrom(AllParams(table), 1, FileUsed).config)

\* The parameters that have a derivation function, as _define_param_specs
\* declares them: groups '', data, network, validation.
DerivedOrder ==
    << "model_version", "theano_compat", "source_dicts", "target_dict",
       "target_embedding_size", "source_dataset", "target_dataset",
       "source_vocab_sizes", "target_vocab_size", "dim_per_factor",
       "dropout_embedding", "dropout_hidden", "valid_source_dataset",
       "valid_target_dataset" >>

FuncOf(name) ==
    (CHOOSE p \in CmdParams(table) : p.name = name).derivation_func

\* What derivation k saw: the results of derivations 1..k-1 and, for every
\* other attribute, the value from before the pass.
SeenBy(k) ==
    [n \in DOMAIN config |->
        IF \E j \in 1..(k - 1) : derived[j] = n THEN config[n]
        ELSE PreDerive[n]]

PassOver == Ended /\ derived # <<>>

\* C15: in both loaders the derivation functions run once each, in
\* declaration order, up to the first one that does not return; each result
\* is the function's value on the configuration that holds the results of
\* all earlier derivations and the un-derived values of all later ones, and
\* is in the configuration when the pass is over.
C15_DerivationOrder ==
    PassOver
    => /\ Len(derived) <= Len(DerivedOrder)
       /\ derived = SubSeq(DerivedOrder, 1, Len(derived))
       /\ pc = "returned" => derived = DerivedOrder
       /\ \A k \in 1..Len(derived) :
             LET r == Derive(FuncOf(derived[k]), SeenBy(k), meta_config,
                             files)
             IN  IF k < Len(derived) \/ pc = "returned"
                 THEN r.status = "ok" /\ config[derived[k]] = r.val
                 ELSE r.status # "ok"
                      /\ config[derived[k]] = PreDerive[derived[k]]

\* A reload by the file loader of a two-factor configuration that the
\* command-line reader returned, with tied embeddings.
C15_Witness ==
    /\ FileRunning /\ returned # None /\ pc = "returned"
    /\ derived = DerivedOrder
    /\ config["factors"] = Some(2)
    /\ config["tie_encoder_decoder_embeddings"] = Some(TRUE)
    /\ Val(returned)["target_embedding_size"] = Some(1)

\* The command-line reader stopped at a derivation that did not return.
C15_WitnessStopped ==
    /\ CmdRunning /\ pc = "exited" /\ exit_status = Some(1)
    /\ derived = SubSeq(DerivedOrder, 1, 8)

VocabCalled == fn = "_derive_source_vocab_sizes" /\ pc # "start"

\* Every dictionary the call could need is readable.
VocabDictsReadable ==
    \A i \in 1..Val(config["factors"]) :
        files.dicts[Val(config["dictionaries"])[i]] # None

\* max index + 1 of dictionaries[i].
SizeOfDict(i) ==
    MaxOf(Val(files.dicts[Val(config["dictionaries"])[i]])) + 1

GivenSizes == Val(config["source_vocab_sizes"])

\* The result is the given list padded to `factors' entries: a given
\* non-negative entry is kept and a missing entry is read from its
\* dictionary.
PaddedAndFilled(v) ==
    /\ Len(v) = Val(config["factors"])
    /\ \A i \in 1..Len(v) :
          /\ (i <= Len(GivenSizes) /\ GivenSizes[i] >= 0)
             => v[i] = GivenSizes[i]
          /\ i > Len(GivenSizes) => v[i] = SizeOfDict(i)
          /\ v[i] >= 0

AllFromDicts(v) ==
    /\ Len(v) = Val(config["factors"])
    /\ \A i \in 1..Len(v) : v[i] = SizeOfDict(i)

\* The five cases in the order of the claim.
ClaimedVocabSizes(v) ==
    IF config["source_vocab_sizes"] # None
       /\ Len(GivenSizes) = Val(config["factors"])
    THEN v = GivenSizes
    ELSE IF config["source_vocab_sizes"] # None
            /\ Len(GivenSizes) < Val(config["factors"])
            /\ meta_config.from_cmdline
    THEN PaddedAndFilled(v)
    ELSE IF HasAttr(config, "n_words_src")
    THEN v = Repeat(Val(config["n_words_src"]), Val(config["factors"]))
    ELSE IF HasAttr(config, "source_vocab_size")
    THEN v = <<Val(config["source_vocab_size"])>>
    ELSE AllFromDicts(v)

\* C16 as stated: whenever the dictionaries are readable,
\* _derive_source_vocab_sizes returns the value of the first applicable of
\* the five cases, the last of which applies to everything left.
C16_FirstApplicableCase ==
    (VocabCalled /\ VocabDictsReadable)
    => pc = "returned" /\ ClaimedVocabSizes(Val(returned))

\* The situations in which the function returns: a full list; a shorter
\* list from the command line; no list and n_words_src in a Theano file;
\* no list, no n_words_src and source_vocab_size in a one-factor file that
\* is not a Theano file; none of the three from the command line.
VocabCaseApplies ==
    IF config["source_vocab_sizes"] # None
    THEN \/ Len(GivenSizes) = Val(config["factors"])
         \/ Len(GivenSizes) < Val(config["factors"])
            /\ meta_config.from_cmdline
    ELSE IF HasAttr(config, "n_words_src")
         THEN ~meta_config.from_cmdline /\ meta_config.from_theano
    ELSE IF HasAttr(config, "source_vocab_size")
         THEN /\ ~meta_config.from_cmdline /\ ~meta_config.from_theano
              /\ Val(config["factors"]) = 1
    ELSE meta_config.from_cmdline

\* C16, amended: with readable dictionaries the function returns the value
\* of the first applicable case when that case's origin is the one the
\* code expects, and fails an assertion otherwise; a list that is there
\* but has the wrong length never falls through to the later cases.
C16_CasesWhereAsserted ==
    (VocabCalled /\ VocabDictsReadable)
    => IF VocabCaseApplies
       THEN pc = "returned" /\ ClaimedVocabSizes(Val(returned))
       ELSE pc = "raised" /\ returned = None /\ opened = <<>>

\* A partial list from the command line: the given size is kept and the
\* second size is read from the second dictionary only.
C16_Witness ==
    /\ VocabCalled /\ pc = "returned"
    /\ meta_config.from_cmdline
    /\ config["factors"] = Some(2)
    /\ config["source_vocab_sizes"] = Some(<<GivenVocab>>)
    /\ returned = Some(<<GivenVocab, 4>>)
    /\ opened = <<"D2">>

StoredVersion ==
    HasAttr(FileUsed, "model_version") /\ FileUsed["model_version"] # None

TheanoOrigin == ~HasAttr(FileUsed, "embedding_size")

StoredDropout ==
    HasAttr(FileUsed, "use_dropout") /\ FileUsed["use_dropout"] = Some(TRUE)

VersionRefused ==
    /\ pc = "exited" /\ exit_status = Some(1)
    /\ log = <<"version 0 dropout is not supported">>
    /\ derived = <<"model_version">>

\* C17: once the derivation pass has run, a configuration from the command
\* line has model_version 0.2; a configuration from a file keeps the
\* file's model_version when there is one and gets 0.1 when there is none,
\* except that a file without embedding_size that has use_dropout set and
\* no version makes the loader log an error and exit with status 1.
C17_VersionStamp ==
    PassOver
    => IF CmdRunning THEN config["model_version"] = Some("0.2")
       ELSE IF StoredVersion
            THEN config["model_version"] = FileUsed["model_version"]
       ELSE IF TheanoOrigin /\ StoredDropout THEN VersionRefused
       ELSE config["model_version"] = Some("0.1") /\ ~VersionRefused

\* A Theano file with use_dropout and no version is refused.
C17_Witness ==
    /\ FileRunning /\ returned = None /\ VersionRefused
    /\ HasAttr(FileUsed, "dim_word") /\ ~StoredVersion /\ StoredDropout

\* A parameter's legacy name and its current name are both in the file.
BothNames ==
    {pr \in LegacyPairs : HasAttr(FileUsed, pr[1]) /\ HasAttr(FileUsed, pr[2])}

FileLoaded ==
    /\ FileRunning /\ returned = None
    /\ pc \notin {"start", "loaded"}
    /\ files.json # None \/ files.pkl # None

\* C18: when the file holds a value under both a legacy name and the
\* current name of a parameter, the loader fails an assertion while it
\* updates the names: nothing is returned, nothing is derived, no exit
\* status is set, and both values are still under their own names.
C18_BothNamesAbort ==
    (FileLoaded /\ BothNames # {})
    => /\ pc = "raised"
       /\ exit_status = None
       /\ derived = <<>>
       /\ \A pr \in BothNames :
             /\ HasAttr(config, pr[1]) /\ config[pr[1]] = FileUsed[pr[1]]
             /\ HasAttr(config, pr[2]) /\ config[pr[2]] = FileUsed[pr[2]]

\* The file has both dim_word and embedding_size, and nothing else twice.
C18_Witness ==
    /\ FileLoaded /\ pc = "raised"
    /\ BothNames = {<<"embedding_size", "dim_word">>}
    /\ config["embedding_size"] = Some(2) /\ config["dim_word"] = Some(3)

Tied == config["tie_encoder_decoder_embeddings"] = Some(TRUE)

FirstDim == Val(config["dim_per_factor"])[1]

\* C19 as stated: in every configuration returned by either loader,
\* target_embedding_size is the first entry of the returned dim_per_factor
\* when the embeddings are tied and embedding_size when they are not.
C19_TiedTakesFirstDim ==
    pc = "returned"
    => IF Tied THEN config["target_embedding_size"] = Some(FirstDim)
       ELSE config["target_embedding_size"] = config["embedding_size"]

\* C19, amended: in every returned configuration target_embedding_size is
\* embedding_size when the embeddings are not tied or there is one factor,
\* and the first entry of dim_per_factor when they are tied and there are
\* several factors; in what the command-line reader returns, and in what
\* the file loader returns with a dim_per_factor of `factors' entries that
\* sum to embedding_size, that is the first entry of dim_per_factor
\* whenever the embeddings are tied.
C19_TiedTakesFirstDimIfConsistent ==
    pc = "returned"
    => /\ IF Tied /\ Val(config["factors"]) > 1
          THEN config["target_embedding_size"] = Some(FirstDim)
          ELSE config["target_embedding_size"] = config["embedding_size"]
       /\ ( /\ Tied
            /\ \/ CmdRunning
               \/ /\ Len(Val(config["dim_per_factor"]))
                       = Val(config["factors"])
                  /\ SumSeq(Val(config["dim_per_factor"]))
                       = Val(config["embedding_size"]) )
          => config["target_embedding_size"] = Some(FirstDim)

\* Tied embeddings and two factors on the command line: the first
\* dimension, not the embedding size.
C19_Witness ==
    /\ CmdRunning /\ pc = "returned" /\ Tied
    /\ config["factors"] = Some(2)
    /\ config["dim_per_factor"] = Some(<<1, 1>>)
    /\ config["embedding_size"] = Some(2)
    /\ config["target_embedding_size"] = Some(1)

\* A configuration that the file loader returned was saved and the load of
\* the saved file has ended.
ReloadedByFile ==
    /\ FileRunning /\ returned # None /\ Ended
    /\ argv = <<>>

\* C20: for every configuration C that load_config_from_json_file returns,
\* writing C out and loading it again returns a configuration with the
\* value of C for every declared parameter name, theano_compat and
\* model_version among them.
C20_LoaderIdempotent ==
    ReloadedByFile
    => /\ pc = "returned"
       /\ \A n \in ParamNames : config[n] = Val(returned)[n]

\* What the reload does keep: every declared parameter except
\* theano_compat.
C20_AllButTheanoCompat ==
    ReloadedByFile
    => /\ pc = "returned"
       /\ \A n \in ParamNames \ {"theano_compat"} :
             config[n] = Val(returned)[n]
       /\ config["theano_compat"] = Some(FALSE)

\* The command line was accepted by the parser, the consistency checker
\* returned no message, the dictionary files are readable, and the
\* derivation pass has ended.
CleanPassOver ==
    /\ CmdRunning /\ PassOver
    /\ exit_status # Some(2) /\ error_messages = <<>>
    /\ files.dicts = AllReadable

\* C21: for every command line that the parser accepts and the consistency
\* checker finds no fault with, with readable dictionary files, no
\* assertion of a derivation function fails: the derivation pass completes
\* and a configuration is returned.
C21_NoAssertionFails ==
    CleanPassOver
    => /\ pc = "returned"
       /\ derived = DerivedOrder

\* What does hold: the pass ends by returning or by a failed assertion,
\* never by an exit, and an assertion fails only in the two validation
\* derivations, when --valid_datasets is missing and so is the single
\* option.
C21_OnlyValidationAsserts ==
    CleanPassOver
    => \/ pc = "returned" /\ derived = DerivedOrder
       \/ /\ pc = "raised"
          /\ config["valid_datasets"] = None
          /\ \/ /\ derived = SubSeq(DerivedOrder, 1, 13)
                /\ config["valid_source_dataset"] = None
             \/ /\ derived = DerivedOrder
                /\ config["valid_target_dataset"] = None

=============================================================================
